---- MODULE Spec2Model ----
(***************************************************************************)
(* The to-do service: account registry, session authenticator, identity    *)
(* resolver and item ownership store over a relational store.  Handlers    *)
(* are split at their data-store statements (query, commit), which are the *)
(* points where concurrent requests interleave; everything a handler does  *)
(* between two statements is local to the request and belongs to the step. *)
(***************************************************************************)
EXTENDS Integers, Sequences, FiniteSets, TLC

\* ------------------------------------------------------------------ bounds
NumClients == 2
MaxUserId == 2
MaxItemId == 3
MaxItemIdConcurrent == 2
MaxTokens == 2
MaxTicks == 2
MaxHashes == 4
MaxLeaked == 1

\* ------------------------------------------------------- program constants
ACCESS_TOKEN_EXPIRE_HOURS == 24
UsernameMinLength == 3
UsernameMaxLength == 50
PasswordMinLength == 8
TextMinLength == 1
TextMaxLength == 500

SECRET_KEY == "server-secret"
WrongKey == "wrong-secret-key"

Clients == 1..NumClients

\* ------------------------------------------------------------------ strings
\* Strings are sequences of one-character strings.
Rep(ch, n) == [i \in 1..n |-> ch]

UpperCase == {"A", "B", "O"}
LowerCase == {"a", "b", "o", "m", "p", "q", "x"}
Digits == {"0", "1", "2", "3", "4", "5", "6", "7", "8", "9"}
Whitespace == {" ", "\n"}

\* str.lower() on one character
ToLower(ch) ==
    CASE ch = "A" -> "a"
      [] ch = "B" -> "b"
      [] ch = "O" -> "o"
      [] OTHER -> ch

\* str.lower()
Lower(s) == [i \in 1..Len(s) |-> ToLower(s[i])]

\* str(n) for n >= 0
DigitChar(d) ==
    CASE d = 0 -> "0" [] d = 1 -> "1" [] d = 2 -> "2" [] d = 3 -> "3"
      [] d = 4 -> "4" [] d = 5 -> "5" [] d = 6 -> "6" [] d = 7 -> "7"
      [] d = 8 -> "8" [] d = 9 -> "9"

DigitVal(ch) ==
    CASE ch = "0" -> 0 [] ch = "1" -> 1 [] ch = "2" -> 2 [] ch = "3" -> 3
      [] ch = "4" -> 4 [] ch = "5" -> 5 [] ch = "6" -> 6 [] ch = "7" -> 7
      [] ch = "8" -> 8 [] ch = "9" -> 9

RECURSIVE IntToStr(_)
IntToStr(n) ==
    IF n < 10 THEN <<DigitChar(n)>>
    ELSE Append(IntToStr(n \div 10), DigitChar(n % 10))

\* int(s) on the subjects presented here: the value of a decimal digit string;
\* a string with any other character raises ValueError
RECURSIVE DigitsValue(_)
DigitsValue(s) ==
    IF Len(s) = 0 THEN 0
    ELSE 10 * DigitsValue(SubSeq(s, 1, Len(s) - 1)) + DigitVal(s[Len(s)])

ParseInt(s) ==
    IF Len(s) >= 1 /\ \A i \in 1..Len(s) : s[i] \in Digits
    THEN [ok |-> TRUE, value |-> DigitsValue(s)]
    ELSE [ok |-> FALSE, value |-> 0]

\* str.strip(): drop leading and trailing whitespace
RECURSIVE LStrip(_)
LStrip(s) ==
    IF Len(s) > 0 /\ s[1] \in Whitespace THEN LStrip(Tail(s)) ELSE s

RECURSIVE RStrip(_)
RStrip(s) ==
    IF Len(s) > 0 /\ s[Len(s)] \in Whitespace
    THEN RStrip(SubSeq(s, 1, Len(s) - 1))
    ELSE s

Strip(s) == RStrip(LStrip(s))

\* re.match(r'^[a-zA-Z0-9_]+$', v): in Python "$" matches at the end of the
\* string and also just before a newline that ends the string.
WordChar(ch) == ch \in UpperCase \cup LowerCase \cup Digits \cup {"_"}

AllWordChars(s) == Len(s) >= 1 /\ \A i \in 1..Len(s) : WordChar(s[i])

UsernamePatternMatch(v) ==
    \/ AllWordChars(v)
    \/ /\ Len(v) >= 2
       /\ v[Len(v)] = "\n"
       /\ AllWordChars(SubSeq(v, 1, Len(v) - 1))

\* --------------------------------------------------------------- validation
\* UserCreate: length constraints of the fields, then the username validator,
\* which returns the lowercased username.
UserCreate(username, password) ==
    IF /\ Len(username) >= UsernameMinLength
       /\ Len(username) <= UsernameMaxLength
       /\ Len(password) >= PasswordMinLength
       /\ UsernamePatternMatch(username)
    THEN [ok |-> TRUE, username |-> Lower(username), password |-> password]
    ELSE [ok |-> FALSE, username |-> username, password |-> password]

\* the inputs of the errors UserCreate raises: one error for each field refused
UserCreateErrors(username, password) ==
    {v \in {username} : ~(/\ Len(username) >= UsernameMinLength
                          /\ Len(username) <= UsernameMaxLength
                          /\ UsernamePatternMatch(username))}
    \cup {v \in {password} : Len(password) < PasswordMinLength}

\* TodoItemCreate: the length constraints apply to the text as sent.
TodoItemCreate(text) ==
    Len(text) >= TextMinLength /\ Len(text) <= TextMaxLength

\* ------------------------------------------------------- credential hasher
\* bcrypt: the digest is a function of the salt and of the first 72 bytes of
\* the password (the inputs are ASCII, one byte a character); the salt is
\* stored with the digest.
BcryptMaxBytes == 72

Truncate(password) ==
    SubSeq(password, 1, IF Len(password) > BcryptMaxBytes THEN BcryptMaxBytes
                        ELSE Len(password))

Bcrypt(salt, password) == <<salt, Truncate(password)>>

hash_password(password, salt) ==
    [salt |-> salt, digest |-> Bcrypt(salt, password)]

\* a stored string that is no bcrypt digest
MalformedHash == [salt |-> 0, digest |-> <<"h">>]

\* pwd_context.identify: the string has the form of a bcrypt digest
Identified(hashed_password) ==
    /\ hashed_password.salt >= 1
    /\ Len(hashed_password.digest) = 2
    /\ hashed_password.digest[1] = hashed_password.salt

\* pwd_context.verify raises UnknownHashError (ok = FALSE) on a string it
\* cannot identify, and compares otherwise
verify_password(plain_password, hashed_password) ==
    IF ~Identified(hashed_password)
    THEN [ok |-> FALSE, value |-> FALSE]
    ELSE [ok |-> TRUE,
          value |-> Bcrypt(hashed_password.salt, plain_password) = hashed_password.digest]

\* ------------------------------------------------------------ token service
\* A token is its signing key and its claims (a dict: a function from claim
\* names), or a string that is no JWT at all.
JwtEncode(claims, key) == [wellformed |-> TRUE, key |-> key, claims |-> claims]

NoClaims == [k \in {} |-> 0]
GarbageToken == [wellformed |-> FALSE, key |-> "", claims |-> NoClaims]

\* (mutant) the expiry not looked at
JwtDecode_NoExpiry(token, key, t) ==
    IF ~token.wellformed \/ token.key # key
    THEN [ok |-> FALSE, claims |-> NoClaims]
    ELSE [ok |-> TRUE, claims |-> token.claims]

\* jwt.decode: signature, then expiry (expired when exp < now); JWTError otherwise
JwtDecode(token, key, t) ==
    IF ~token.wellformed \/ token.key # key
    THEN [ok |-> FALSE, claims |-> NoClaims]
    ELSE IF "exp" \in DOMAIN token.claims /\ token.claims["exp"] < t
    THEN [ok |-> FALSE, claims |-> NoClaims]
    ELSE [ok |-> TRUE, claims |-> token.claims]

\* create_access_token(data, expires_delta): expires_delta is <<>> (None) or <<d>>
create_access_token(data, expires_delta, utcnow) ==
    LET expire == IF expires_delta # <<>> /\ expires_delta[1] # 0
                  THEN utcnow + expires_delta[1]
                  ELSE utcnow + ACCESS_TOKEN_EXPIRE_HOURS
    IN JwtEncode([k \in DOMAIN data \cup {"exp"} |->
                    IF k = "exp" THEN expire ELSE data[k]], SECRET_KEY)

\* -------------------------------------------------------------------- state
VARIABLES
    users,       \* table users: id -> [username, password_hash]
    registered,  \* history: id -> the password the user registered with
    items,       \* table todo_items: id -> [user_id, text, completed, updated_at]
    nextUserId,  \* sequence behind users.id
    nextItemId,  \* sequence behind todo_items.id
    nextSalt,    \* salts drawn so far by hash_password (each one fresh)
    now,         \* the clock, in hours
    tokens,      \* the login responses (token, user info) the clients hold
    pc,          \* per client: "idle", "handler", "commit" or "hashed"
    req,         \* per client: the request in flight and the handler's locals
    last,        \* the request the latest step finished, with its response
    sessions     \* per client: the sessions its requests opened and did not close

vars == <<users, registered, items, nextUserId, nextItemId, nextSalt, now, tokens, pc, req, last, sessions>>

NoHash == [salt |-> 0, digest |-> <<>>]

NoReq ==
    [op |-> "none", username |-> <<>>, password |-> <<>>, auth |-> <<>>,
     text |-> <<>>, todo_id |-> 0, completed |-> FALSE,
     password_hash |-> NoHash, user_id |-> 0, loaded_completed |-> FALSE,
     expires_delta |-> <<>>, plain_password |-> <<>>, fault |-> "",
     rowcount |-> 0]

NoHeaders == [k \in {} |-> ""]
BearerHeaders == [k \in {"WWW-Authenticate"} |-> "Bearer"]
NoBody == [kind |-> "none"]
NoResp == [status |-> 0, detail |-> "", headers |-> NoHeaders, body |-> NoBody]
NoLast == [req |-> NoReq, resp |-> NoResp]

\* raise HTTPException(status_code, detail, headers)
HTTPException(status, detail, headers) ==
    [status |-> status, detail |-> detail, headers |-> headers, body |-> NoBody]

\* RequestValidationError: the default handler answers with the list of the
\* errors, and each error carries the input that was refused
RequestValidationError(inputs) ==
    [status |-> 422, detail |-> "validation error", headers |-> NoHeaders,
     body |-> [kind |-> "errors", inputs |-> inputs]]

\* an exception no handler catches
InternalServerError == HTTPException(500, "Internal Server Error", NoHeaders)

Success(status, body) ==
    [status |-> status, detail |-> "", headers |-> NoHeaders, body |-> body]

\* the operations served over HTTP with Depends(get_db)
UsesDb(op) == op \in {"register", "login", "create", "list", "update", "delete"}

\* get_db: db = SessionLocal() when the request starts ...
SessionLocal(n) == n + 1

\* ... and db.close() in the finally, whichever way the request ends
Close(n) == n - 1

\* the sessions of a request of c that is being served: get_db is resolved
\* once for a request (the resolver and the handler share the session)
Acquired(c, rq) ==
    IF UsesDb(rq.op) /\ pc[c] = "idle" THEN SessionLocal(sessions[c]) ELSE sessions[c]

\* the response is handed to the client, who keeps what a login returns
Deliver(c, r, rq) ==
    /\ pc' = [pc EXCEPT ![c] = "idle"]
    /\ req' = [req EXCEPT ![c] = NoReq]
    /\ last' = [req |-> rq, resp |-> r]
    /\ tokens' = IF r.body.kind = "login" /\ Cardinality(tokens) < MaxTokens
                 THEN tokens \cup {r.body}
                 ELSE tokens

\* the request of c ends with response r, by return or by exception
Respond(c, r, rq) ==
    /\ Deliver(c, r, rq)
    /\ sessions' = [sessions EXCEPT ![c] =
                       IF UsesDb(rq.op) THEN Close(Acquired(c, rq))
                       ELSE Acquired(c, rq)]

\* the request of c goes on to its next data-store statement
Proceed(c, stage, rq) ==
    /\ pc' = [pc EXCEPT ![c] = stage]
    /\ req' = [req EXCEPT ![c] = rq]
    /\ last' = NoLast
    /\ tokens' = tokens
    /\ sessions' = [sessions EXCEPT ![c] = Acquired(c, rq)]

\* db.query(User).filter(User.username == name).first()
UserByUsername(name) == {i \in DOMAIN users : users[i].username = name}

\* ------------------------------------------------------------ the inputs
Bob == <<"b", "o", "b">>
Al == <<"a", "_", "1">>
GoodPassword == Rep("p", PasswordMinLength)
OtherPassword == Rep("q", PasswordMinLength)

\* two passwords that differ only after their first 72 characters
LongPassword == Rep("p", BcryptMaxBytes) \o <<"a">>
LongPasswordTwin == Rep("p", BcryptMaxBytes) \o <<"b">>

ValidRegisterNames == {Bob, <<"B", "o", "b">>, Al, <<"b", "o", "b", "\n">>}

RegisterInputs ==
    (ValidRegisterNames \X {GoodPassword, OtherPassword})
    \cup { <<<<"a", "b">>, GoodPassword>>,
           <<<<"a", "-", "1">>, GoodPassword>>,
           <<Rep("a", UsernameMaxLength + 1), GoodPassword>>,
           <<<<"B", "o", "b">>, Rep("p", PasswordMinLength - 1)>>,
           <<Bob, LongPassword>> }

LoginInputs ==
    ({Bob, <<"B", "O", "B">>, Al, <<"b", "o", "b", "\n">>}
     \X {GoodPassword, OtherPassword})
    \cup { <<Bob, LongPassword>>, <<Bob, LongPasswordTwin>> }

\* ----------------------------------------------------------------- register
UserResponse(id, user) == [kind |-> "user", id |-> id, username |-> user.username]

UsernameExists == HTTPException(409, "Username already exists", NoHeaders)

\* register, up to its existence query; the handler sees only the validated
\* (lowercased) username
RegisterStart(c, inputs) ==
    /\ pc[c] = "idle"
    /\ \E input \in inputs :
         LET user_data == UserCreate(input[1], input[2])
             raw == [NoReq EXCEPT !.op = "register", !.username = input[1],
                                  !.password = input[2]]
         IN IF ~user_data.ok
            THEN /\ Respond(c, RequestValidationError(
                                   UserCreateErrors(input[1], input[2])), raw)
                 /\ UNCHANGED nextSalt
            ELSE IF UserByUsername(user_data.username) # {}
            THEN /\ Respond(c, UsernameExists, raw)
                 /\ UNCHANGED nextSalt
            ELSE /\ nextSalt <= MaxUserId
                 /\ Proceed(c, "commit",
                        [raw EXCEPT !.username = user_data.username,
                                    !.password_hash = hash_password(user_data.password, nextSalt)])
                 /\ nextSalt' = nextSalt + 1
    /\ UNCHANGED <<users, registered, items, nextUserId, nextItemId, now>>

\* (mutant) IntegrityError not caught
RegisterCommit_Uncaught(c) ==
    /\ pc[c] = "commit"
    /\ req[c].op = "register"
    /\ nextUserId' = nextUserId + 1
    /\ IF UserByUsername(req[c].username) # {}
       THEN /\ Respond(c, InternalServerError, req[c])
            /\ UNCHANGED <<users, registered>>
       ELSE LET new_user == [username |-> req[c].username,
                             password_hash |-> req[c].password_hash]
            IN /\ users' = [i \in DOMAIN users \cup {nextUserId} |->
                              IF i = nextUserId THEN new_user ELSE users[i]]
               /\ registered' = [i \in DOMAIN users \cup {nextUserId} |->
                              IF i = nextUserId THEN req[c].password ELSE registered[i]]
               /\ Respond(c, Success(201, UserResponse(nextUserId, new_user)), req[c])
    /\ UNCHANGED <<items, nextItemId, nextSalt, now>>

\* (mutant) ids handed out as one more than the largest stored id, so that
\* the id of a deleted user comes back
RegisterCommit_IdReused(c) ==
    /\ pc[c] = "commit"
    /\ req[c].op = "register"
    /\ nextUserId' = nextUserId + 1
    /\ IF UserByUsername(req[c].username) # {}
       THEN /\ Respond(c, UsernameExists, req[c])
            /\ UNCHANGED <<users, registered>>
       ELSE LET new_user == [username |-> req[c].username,
                             password_hash |-> req[c].password_hash]
                id == IF users = <<>> THEN 1
                      ELSE 1 + CHOOSE i \in DOMAIN users : \A j \in DOMAIN users : j <= i
            IN /\ users' = [i \in DOMAIN users \cup {id} |->
                              IF i = id THEN new_user ELSE users[i]]
               /\ registered' = [i \in DOMAIN users \cup {id} |->
                              IF i = id THEN req[c].password ELSE registered[i]]
               /\ Respond(c, Success(201, UserResponse(id, new_user)), req[c])
    /\ UNCHANGED <<items, nextItemId, nextSalt, now>>

\* register: db.add, db.commit, db.refresh; the unique index on users.username
\* decides, and IntegrityError is answered with the same 409
RegisterCommit(c) ==
    /\ pc[c] = "commit"
    /\ req[c].op = "register"
    /\ nextUserId' = nextUserId + 1
    /\ IF UserByUsername(req[c].username) # {}
       THEN /\ Respond(c, UsernameExists, req[c])
            /\ UNCHANGED <<users, registered>>
       ELSE LET new_user == [username |-> req[c].username,
                             password_hash |-> req[c].password_hash]
            IN /\ users' = [i \in DOMAIN users \cup {nextUserId} |->
                              IF i = nextUserId THEN new_user ELSE users[i]]
               /\ registered' = [i \in DOMAIN users \cup {nextUserId} |->
                              IF i = nextUserId THEN req[c].password ELSE registered[i]]
               /\ Respond(c, Success(201, UserResponse(nextUserId, new_user)), req[c])
    /\ UNCHANGED <<items, nextItemId, nextSalt, now>>

\* -------------------------------------------------------------------- login
InvalidCredentials == HTTPException(401, "Invalid credentials", BearerHeaders)

LoginResponse(access_token, id, user) ==
    [kind |-> "login", access_token |-> access_token, token_type |-> "bearer",
     user |-> [id |-> id, username |-> user.username]]

\* (mutant) the username as subject
TokenData_SubIsName(id, user) ==
    [k \in {"sub", "username"} |-> user.username]

TokenData(id, user) ==
    [k \in {"sub", "username"} |-> IF k = "sub" THEN IntToStr(id) ELSE user.username]

\* (mutant) a wrong password answered with its own message
login_Distinguishing(username, password) ==
    LET found == UserByUsername(Lower(username))
    IN IF found = {}
       THEN InvalidCredentials
       ELSE LET id == CHOOSE i \in found : TRUE
                user == users[id]
                verified == verify_password(password, user.password_hash)
            IN IF ~verified.ok THEN InternalServerError
               ELSE IF ~verified.value
               THEN HTTPException(401, "Incorrect password", BearerHeaders)
               ELSE Success(200, LoginResponse(
                        create_access_token(TokenData(id, user), <<>>, now), id, user))

\* login: the exception of verify_password is not caught
login(username, password) ==
    LET name == Lower(username)
        found == UserByUsername(name)
    IN IF found = {}
       THEN InvalidCredentials
       ELSE LET id == CHOOSE i \in found : TRUE
                user == users[id]
                verified == verify_password(password, user.password_hash)
            IN IF ~verified.ok THEN InternalServerError
               ELSE IF ~verified.value THEN InvalidCredentials
               ELSE Success(200, LoginResponse(
                        create_access_token(TokenData(id, user), <<>>, now), id, user))

Login(c, inputs) ==
    /\ pc[c] = "idle"
    /\ \E input \in inputs :
         Respond(c, login(input[1], input[2]),
                 [NoReq EXCEPT !.op = "login", !.username = input[1],
                               !.password = input[2]])
    /\ UNCHANGED <<users, registered, items, nextUserId, nextItemId, nextSalt, now>>

\* the lifetimes handed to create_access_token: none (the default), negative,
\* zero, positive
TtlInputs == {<<>>, <<-1>>, <<0>>, <<2 * ACCESS_TOKEN_EXPIRE_HOURS>>}

\* create_access_token called with the token data of an existing user and an
\* expires_delta, as the tests do; the caller keeps the token
IssueToken(c, ttls) ==
    /\ pc[c] = "idle"
    /\ \E id \in DOMAIN users, ttl \in ttls :
         Respond(c,
                 Success(200, LoginResponse(
                     create_access_token(TokenData(id, users[id]), ttl, now),
                     id, users[id])),
                 [NoReq EXCEPT !.op = "issue", !.user_id = id, !.expires_delta = ttl])
    /\ UNCHANGED <<users, registered, items, nextUserId, nextItemId, nextSalt, now>>

\* the passwords handed to the credential hasher
HashInputs == {GoodPassword, OtherPassword, LongPassword, LongPasswordTwin}

\* hash_password(password) called directly, as the tests do; the caller keeps
\* the password and its hash
HashPassword(c) ==
    /\ pc[c] = "idle"
    /\ nextSalt <= MaxHashes
    /\ \E password \in HashInputs :
         Proceed(c, "hashed",
                 [NoReq EXCEPT !.op = "hash", !.password = password,
                               !.password_hash = hash_password(password, nextSalt)])
    /\ nextSalt' = nextSalt + 1
    /\ UNCHANGED <<users, registered, items, nextUserId, nextItemId, now>>

\* verify_password(plain_password, hashed_password) called on a hash the
\* caller keeps
VerifyPassword(c) ==
    /\ pc[c] = "hashed"
    /\ \E plain_password \in HashInputs :
         LET verified == verify_password(plain_password, req[c].password_hash)
         IN Respond(c,
                    IF verified.ok
                    THEN Success(200, [kind |-> "verify", result |-> verified.value])
                    ELSE InternalServerError,
                    [req[c] EXCEPT !.op = "verify", !.plain_password = plain_password])
    /\ UNCHANGED <<users, registered, items, nextUserId, nextItemId, nextSalt, now>>

\* the clock
Tick ==
    /\ now < MaxTicks * ACCESS_TOKEN_EXPIRE_HOURS
    /\ now' = now + ACCESS_TOKEN_EXPIRE_HOURS
    /\ last' = NoLast
    /\ UNCHANGED <<users, registered, items, nextUserId, nextItemId, nextSalt, tokens, pc, req, sessions>>

\* -------------------------------------------------------- identity resolver
CredentialsException ==
    HTTPException(401, "Could not validate credentials", BearerHeaders)

NotAuthenticated == HTTPException(403, "Not authenticated", NoHeaders)

\* (mutant) the ValueError of int() not caught
get_current_user_UncaughtValueError(token) ==
    LET payload == JwtDecode(token, SECRET_KEY, now)
    IN IF ~payload.ok \/ "sub" \notin DOMAIN payload.claims
       THEN [ok |-> FALSE, resp |-> CredentialsException, user_id |-> 0]
       ELSE LET user_id == ParseInt(payload.claims["sub"])
            IN IF ~user_id.ok
               THEN [ok |-> FALSE, resp |-> InternalServerError, user_id |-> 0]
               ELSE IF user_id.value \notin DOMAIN users
               THEN [ok |-> FALSE, resp |-> CredentialsException, user_id |-> 0]
               ELSE [ok |-> TRUE, resp |-> NoResp, user_id |-> user_id.value]

\* (mutant) an unknown subject answered with its own error
get_current_user_UserNotFound(token) ==
    LET payload == JwtDecode(token, SECRET_KEY, now)
    IN IF ~payload.ok \/ "sub" \notin DOMAIN payload.claims
       THEN [ok |-> FALSE, resp |-> CredentialsException, user_id |-> 0]
       ELSE LET user_id == ParseInt(payload.claims["sub"])
            IN IF ~user_id.ok
               THEN [ok |-> FALSE, resp |-> CredentialsException, user_id |-> 0]
               ELSE IF user_id.value \notin DOMAIN users
               THEN [ok |-> FALSE, resp |-> HTTPException(404, "User not found", NoHeaders),
                     user_id |-> 0]
               ELSE [ok |-> TRUE, resp |-> NoResp, user_id |-> user_id.value]

\* (mutant) the user not looked up
get_current_user_NoUserLookup(token) ==
    LET payload == JwtDecode(token, SECRET_KEY, now)
    IN IF ~payload.ok \/ "sub" \notin DOMAIN payload.claims
       THEN [ok |-> FALSE, resp |-> CredentialsException, user_id |-> 0]
       ELSE LET user_id == ParseInt(payload.claims["sub"])
            IN IF ~user_id.ok
               THEN [ok |-> FALSE, resp |-> CredentialsException, user_id |-> 0]
               ELSE [ok |-> TRUE, resp |-> NoResp, user_id |-> user_id.value]

\* get_current_user(credentials, db) on a presented token
get_current_user(token) ==
    LET payload == JwtDecode(token, SECRET_KEY, now)
    IN IF ~payload.ok
       THEN [ok |-> FALSE, resp |-> CredentialsException, user_id |-> 0]
       ELSE IF "sub" \notin DOMAIN payload.claims
       THEN [ok |-> FALSE, resp |-> CredentialsException, user_id |-> 0]
       ELSE LET user_id == ParseInt(payload.claims["sub"])
            IN IF ~user_id.ok
               THEN [ok |-> FALSE, resp |-> CredentialsException, user_id |-> 0]
               ELSE IF user_id.value \notin DOMAIN users
               THEN [ok |-> FALSE, resp |-> CredentialsException, user_id |-> 0]
               ELSE [ok |-> TRUE, resp |-> NoResp, user_id |-> user_id.value]

\* (mutant) the missing header answered as an invalid token is
Authenticate_Missing401(auth) ==
    IF auth = <<>>
    THEN [ok |-> FALSE, resp |-> CredentialsException, user_id |-> 0]
    ELSE get_current_user(auth[1])

\* Depends(security), then get_current_user: auth is <<>> (no Authorization
\* bearer header) or <<token>>
Authenticate(auth) ==
    IF auth = <<>>
    THEN [ok |-> FALSE, resp |-> NotAuthenticated, user_id |-> 0]
    ELSE get_current_user(auth[1])

\* tokens no login returned
ForgedTokens ==
    { GarbageToken,
      JwtEncode(TokenData(1, [username |-> Bob]), WrongKey),
      JwtEncode([k \in {"username"} |-> Bob], SECRET_KEY),
      JwtEncode([k \in {"sub"} |-> <<"x">>], SECRET_KEY),
      create_access_token(TokenData(1, [username |-> Bob]), <<-1>>, 0) }

\* what a client may present: a token it holds
HeldAuths == {<<b.access_token>> : b \in tokens}

\* ... or no header
HeldOrNoAuth == {<<>>} \cup HeldAuths

\* ... or a token no login returned
AnyAuths == {<<>>} \cup HeldAuths \cup {<<t>> : t \in ForgedTokens}

\* --------------------------------------------------------------- todo items
TodoItemResponse(id, todo) ==
    [id |-> id, user_id |-> todo.user_id, text |-> todo.text,
     completed |-> todo.completed, updated_at |-> todo.updated_at]

ItemBody(id, todo) == [kind |-> "item", item |-> TodoItemResponse(id, todo)]

TodoNotFound == HTTPException(404, "Todo item not found", NoHeaders)
NotAuthorizedUpdate == HTTPException(403, "Not authorized to update this item", NoHeaders)
NotAuthorizedDelete == HTTPException(403, "Not authorized to delete this item", NoHeaders)

GoodTexts == { <<"m">>, <<" ", "m", " ">> }
TextInputs == GoodTexts \cup { <<" ">>, <<>>, Rep("x", TextMaxLength + 1) }

CreatesInFlight == Cardinality({c \in Clients : req[c].op = "create"})

\* POST /api/todos: dependencies, then the body
CreateStart(c, auths, texts, cap) ==
    /\ pc[c] = "idle"
    /\ \E auth \in auths, text \in texts :
         LET who == Authenticate(auth)
             rq == [NoReq EXCEPT !.op = "create", !.auth = auth, !.text = text]
         IN IF ~who.ok THEN Respond(c, who.resp, rq)
            ELSE IF ~TodoItemCreate(text)
            THEN Respond(c, RequestValidationError({text}), rq)
            ELSE /\ nextItemId + CreatesInFlight <= cap
                 /\ Proceed(c, "handler", [rq EXCEPT !.user_id = who.user_id])
    /\ UNCHANGED <<users, registered, items, nextUserId, nextItemId, nextSalt, now>>

\* (mutant) no foreign key on todo_items.user_id
CreateCommit_NoForeignKey(c) ==
    /\ pc[c] = "handler"
    /\ req[c].op = "create"
    /\ nextItemId' = nextItemId + 1
    /\ LET new_todo == [user_id |-> req[c].user_id,
                        text |-> Strip(req[c].text),
                        completed |-> FALSE,
                        updated_at |-> <<>>]
       IN /\ items' = [i \in DOMAIN items \cup {nextItemId} |->
                         IF i = nextItemId THEN new_todo ELSE items[i]]
          /\ Respond(c, Success(201, ItemBody(nextItemId, new_todo)), req[c])
    /\ UNCHANGED <<users, registered, nextUserId, nextSalt, now>>

\* (mutant) the owner not taken from the resolved user
CreateCommit_FirstUserOwns(c) ==
    /\ pc[c] = "handler"
    /\ req[c].op = "create"
    /\ nextItemId' = nextItemId + 1
    /\ IF req[c].user_id \notin DOMAIN users
       THEN /\ Respond(c, InternalServerError, req[c])
            /\ UNCHANGED items
       ELSE LET new_todo == [user_id |-> CHOOSE u \in DOMAIN users : TRUE,
                             text |-> Strip(req[c].text),
                             completed |-> FALSE,
                             updated_at |-> <<>>]
            IN /\ items' = [i \in DOMAIN items \cup {nextItemId} |->
                              IF i = nextItemId THEN new_todo ELSE items[i]]
               /\ Respond(c, Success(201, ItemBody(nextItemId, new_todo)), req[c])
    /\ UNCHANGED <<users, registered, nextUserId, nextSalt, now>>

\* create_todo_item: db.add, db.commit, db.refresh; the foreign key on
\* todo_items.user_id decides, and its IntegrityError is not caught
CreateCommit(c) ==
    /\ pc[c] = "handler"
    /\ req[c].op = "create"
    /\ nextItemId' = nextItemId + 1
    /\ IF req[c].user_id \notin DOMAIN users
       THEN /\ Respond(c, InternalServerError, req[c])
            /\ UNCHANGED items
       ELSE LET new_todo == [user_id |-> req[c].user_id,
                             text |-> Strip(req[c].text),
                             completed |-> FALSE,
                             updated_at |-> <<>>]
            IN /\ items' = [i \in DOMAIN items \cup {nextItemId} |->
                              IF i = nextItemId THEN new_todo ELSE items[i]]
               /\ Respond(c, Success(201, ItemBody(nextItemId, new_todo)), req[c])
    /\ UNCHANGED <<users, registered, nextUserId, nextSalt, now>>

\* GET /api/todos
ListStart(c, auths) ==
    /\ pc[c] = "idle"
    /\ \E auth \in auths :
         LET who == Authenticate(auth)
             rq == [NoReq EXCEPT !.op = "list", !.auth = auth]
         IN IF ~who.ok THEN Respond(c, who.resp, rq)
            ELSE Proceed(c, "handler", [rq EXCEPT !.user_id = who.user_id])
    /\ UNCHANGED <<users, registered, items, nextUserId, nextItemId, nextSalt, now>>

\* .order_by(TodoItem.id.desc())
RECURSIVE OrderByIdDesc(_)
OrderByIdDesc(ids) ==
    IF ids = {} THEN <<>>
    ELSE LET top == CHOOSE i \in ids : \A j \in ids : j <= i
         IN <<top>> \o OrderByIdDesc(ids \ {top})

\* (mutant) the filter on the owner left out
get_all_todos_Unfiltered(user_id) ==
    LET ids == OrderByIdDesc(DOMAIN items)
    IN [k \in 1..Len(ids) |-> TodoItemResponse(ids[k], items[ids[k]])]

\* db.query(TodoItem).filter(TodoItem.user_id == current_user.id)
\*   .order_by(TodoItem.id.desc()).all()
get_all_todos(user_id) ==
    LET ids == OrderByIdDesc({i \in DOMAIN items : items[i].user_id = user_id})
    IN [k \in 1..Len(ids) |-> TodoItemResponse(ids[k], items[ids[k]])]

ListQuery(c) ==
    /\ pc[c] = "handler"
    /\ req[c].op = "list"
    /\ Respond(c, Success(200, [kind |-> "list", items |-> get_all_todos(req[c].user_id)]),
               req[c])
    /\ UNCHANGED <<users, registered, items, nextUserId, nextItemId, nextSalt, now>>

\* PATCH /api/todos/{todo_id}
UpdateStart(c, auths, ids) ==
    /\ pc[c] = "idle"
    /\ \E auth \in auths, todo_id \in ids, completed \in BOOLEAN :
         LET who == Authenticate(auth)
             rq == [NoReq EXCEPT !.op = "update", !.auth = auth,
                                 !.todo_id = todo_id, !.completed = completed]
         IN IF ~who.ok THEN Respond(c, who.resp, rq)
            ELSE Proceed(c, "handler", [rq EXCEPT !.user_id = who.user_id])
    /\ UNCHANGED <<users, registered, items, nextUserId, nextItemId, nextSalt, now>>

\* (mutant) the two checks folded into one: a missing item is answered as forbidden
CheckTodo_OwnershipFirst(todo_id, user_id, forbidden) ==
    IF todo_id \notin DOMAIN items \/ items[todo_id].user_id # user_id
    THEN <<forbidden>>
    ELSE <<>>

\* (mutant) the ownership check left out
CheckTodo_NoOwnership(todo_id, user_id, forbidden) ==
    IF todo_id \notin DOMAIN items THEN <<TodoNotFound>> ELSE <<>>

\* the existence check, then the ownership check, of update_todo_completion
\* and delete_todo_item: <<>> when both pass
CheckTodo(todo_id, user_id, forbidden) ==
    IF todo_id \notin DOMAIN items THEN <<TodoNotFound>>
    ELSE IF items[todo_id].user_id # user_id THEN <<forbidden>>
    ELSE <<>>

\* (mutant) the flag written before the checks
UpdateLoad_WriteBeforeCheck(c) ==
    /\ pc[c] = "handler"
    /\ req[c].op = "update"
    /\ LET failed == CheckTodo(req[c].todo_id, req[c].user_id, NotAuthorizedUpdate)
       IN IF failed # <<>>
          THEN /\ Respond(c, failed[1], req[c])
               /\ items' = IF req[c].todo_id \in DOMAIN items
                            THEN [items EXCEPT ![req[c].todo_id].completed = req[c].completed]
                            ELSE items
          ELSE /\ Proceed(c, "commit",
                     [req[c] EXCEPT !.loaded_completed = items[req[c].todo_id].completed])
               /\ items' = items
    /\ UNCHANGED <<users, registered, nextUserId, nextItemId, nextSalt, now>>

\* update_todo_completion, up to the ownership check
UpdateLoad(c) ==
    /\ pc[c] = "handler"
    /\ req[c].op = "update"
    /\ LET failed == CheckTodo(req[c].todo_id, req[c].user_id, NotAuthorizedUpdate)
       IN IF failed # <<>> THEN Respond(c, failed[1], req[c])
          ELSE Proceed(c, "commit",
                   [req[c] EXCEPT !.loaded_completed = items[req[c].todo_id].completed])
    /\ UNCHANGED <<users, registered, items, nextUserId, nextItemId, nextSalt, now>>

\* update_todo_completion: todo.completed = ..., db.commit, db.refresh.  The
\* unit of work emits UPDATE only when the value differs from the loaded one,
\* and only an UPDATE sets updated_at (onupdate=func.now()), which is NULL
\* (<<>>) until then; an UPDATE that matches no row (StaleDataError) and a
\* refresh that finds no row (InvalidRequestError) are not caught.
UpdateCommit(c) ==
    /\ pc[c] = "commit"
    /\ req[c].op = "update"
    /\ LET id == req[c].todo_id
       IN IF id \notin DOMAIN items
          THEN /\ Respond(c, InternalServerError, req[c])
               /\ UNCHANGED items
          ELSE LET todo == IF req[c].completed # req[c].loaded_completed
                           THEN [items[id] EXCEPT !.completed = req[c].completed,
                                                  !.updated_at = <<now>>]
                           ELSE items[id]
               IN /\ items' = [items EXCEPT ![id] = todo]
                  /\ Respond(c, Success(200, ItemBody(id, todo)), req[c])
    /\ UNCHANGED <<users, registered, nextUserId, nextItemId, nextSalt, now>>

\* DELETE /api/todos/{todo_id}
DeleteStart(c, auths, ids) ==
    /\ pc[c] = "idle"
    /\ \E auth \in auths, todo_id \in ids :
         LET who == Authenticate(auth)
             rq == [NoReq EXCEPT !.op = "delete", !.auth = auth, !.todo_id = todo_id]
         IN IF ~who.ok THEN Respond(c, who.resp, rq)
            ELSE Proceed(c, "handler", [rq EXCEPT !.user_id = who.user_id])
    /\ UNCHANGED <<users, registered, items, nextUserId, nextItemId, nextSalt, now>>

\* delete_todo_item, up to the ownership check
DeleteLoad(c) ==
    /\ pc[c] = "handler"
    /\ req[c].op = "delete"
    /\ LET failed == CheckTodo(req[c].todo_id, req[c].user_id, NotAuthorizedDelete)
       IN IF failed # <<>> THEN Respond(c, failed[1], req[c])
          ELSE Proceed(c, "commit", req[c])
    /\ UNCHANGED <<users, registered, items, nextUserId, nextItemId, nextSalt, now>>

\* (mutant) the delete takes every item of the owner along
DeleteCommit_AllOfOwner(c) ==
    /\ pc[c] = "commit"
    /\ req[c].op = "delete"
    /\ items' = [i \in {j \in DOMAIN items : items[j].user_id # req[c].user_id} |-> items[i]]
    /\ Respond(c, Success(204, NoBody), req[c])
    /\ UNCHANGED <<users, registered, nextUserId, nextItemId, nextSalt, now>>

\* delete_todo_item: db.delete, db.commit.  A DELETE that matches no row
\* (rowcount 0) only warns.
DeleteCommit(c) ==
    /\ pc[c] = "commit"
    /\ req[c].op = "delete"
    /\ items' = [i \in DOMAIN items \ {req[c].todo_id} |-> items[i]]
    /\ Respond(c, Success(204, NoBody),
               [req[c] EXCEPT !.rowcount = IF req[c].todo_id \in DOMAIN items
                                           THEN 1 ELSE 0])
    /\ UNCHANGED <<users, registered, nextUserId, nextItemId, nextSalt, now>>

\* ------------------------------------------------------------ user deletion
\* (mutant) the user's items left behind
DeleteUser_NoCascade(u) ==
    /\ u \in DOMAIN users
    /\ users' = [i \in DOMAIN users \ {u} |-> users[i]]
    /\ registered' = [i \in DOMAIN users \ {u} |-> registered[i]]
    /\ last' = NoLast
    /\ UNCHANGED <<items, nextUserId, nextItemId, nextSalt, now, tokens, pc, req, sessions>>

\* db.delete(user), db.commit(): the user and, by cascade, the user's items
DeleteUser(u) ==
    /\ u \in DOMAIN users
    /\ users' = [i \in DOMAIN users \ {u} |-> users[i]]
    /\ registered' = [i \in DOMAIN users \ {u} |-> registered[i]]
    /\ items' = [i \in {j \in DOMAIN items : items[j].user_id # u} |-> items[i]]
    /\ last' = NoLast
    /\ UNCHANGED <<nextUserId, nextItemId, nextSalt, now, tokens, pc, req, sessions>>

\* db.add(User(username=..., password_hash="hashedpassword")), db.commit(), as
\* the model tests do: a user whose stored hash no hash_password returned
AddUser(names) ==
    /\ nextUserId <= MaxUserId
    /\ \E name \in names :
         /\ UserByUsername(name) = {}
         /\ users' = [i \in DOMAIN users \cup {nextUserId} |->
                        IF i = nextUserId
                        THEN [username |-> name, password_hash |-> MalformedHash]
                        ELSE users[i]]
         /\ registered' = [i \in DOMAIN users \cup {nextUserId} |->
                        IF i = nextUserId THEN <<>> ELSE registered[i]]
    /\ nextUserId' = nextUserId + 1
    /\ last' = NoLast
    /\ UNCHANGED <<items, nextItemId, nextSalt, now, tokens, pc, req, sessions>>

\* ----------------------------------------------------------- storage faults
\* the request of c is at its write: db.commit() with the INSERT, UPDATE or
\* DELETE it flushes
AtWrite(c) ==
    \/ pc[c] = "commit" /\ req[c].op \in {"register", "update", "delete"}
    \/ pc[c] = "handler" /\ req[c].op = "create"

\* (mutant) the write stays in the store although its commit raised
WriteFault_Kept(c) ==
    /\ AtWrite(c)
    /\ req[c].op = "delete"
    /\ items' = [i \in DOMAIN items \ {req[c].todo_id} |-> items[i]]
    /\ Respond(c, InternalServerError, [req[c] EXCEPT !.fault = "write"])
    /\ UNCHANGED <<users, registered, nextUserId, nextItemId, nextSalt, now>>

\* db.commit() raises an exception that is no IntegrityError (the connection
\* is lost, the statement times out): the transaction is not committed, no
\* handler catches the exception, the finally of get_db closes the session,
\* which rolls back.  The sequence value of an INSERT is spent or not.
WriteFault(c) ==
    /\ AtWrite(c)
    /\ Respond(c, InternalServerError, [req[c] EXCEPT !.fault = "write"])
    /\ \E spent \in {0, 1} :
         /\ nextUserId' = IF req[c].op = "register" THEN nextUserId + spent
                          ELSE nextUserId
         /\ nextItemId' = IF req[c].op = "create" THEN nextItemId + spent
                          ELSE nextItemId
    /\ UNCHANGED <<users, registered, items, nextSalt, now>>

\* db.commit() succeeds and the db.refresh() after it raises: the write is
\* committed and the exception is not caught
RefreshFault(c) ==
    /\ AtWrite(c)
    /\ Respond(c, InternalServerError, [req[c] EXCEPT !.fault = "refresh"])
    /\ CASE req[c].op = "register" ->
              /\ UserByUsername(req[c].username) = {}
              /\ users' = [i \in DOMAIN users \cup {nextUserId} |->
                             IF i = nextUserId
                             THEN [username |-> req[c].username,
                                   password_hash |-> req[c].password_hash]
                             ELSE users[i]]
              /\ registered' = [i \in DOMAIN users \cup {nextUserId} |->
                             IF i = nextUserId THEN req[c].password ELSE registered[i]]
              /\ nextUserId' = nextUserId + 1
              /\ UNCHANGED <<items, nextItemId>>
         [] req[c].op = "create" ->
              /\ req[c].user_id \in DOMAIN users
              /\ items' = [i \in DOMAIN items \cup {nextItemId} |->
                             IF i = nextItemId
                             THEN [user_id |-> req[c].user_id,
                                   text |-> Strip(req[c].text),
                                   completed |-> FALSE,
                                   updated_at |-> <<>>]
                             ELSE items[i]]
              /\ nextItemId' = nextItemId + 1
              /\ UNCHANGED <<users, registered, nextUserId>>
         [] req[c].op = "update" ->
              /\ req[c].todo_id \in DOMAIN items
              /\ req[c].completed # req[c].loaded_completed
              /\ items' = [items EXCEPT ![req[c].todo_id] =
                             [@ EXCEPT !.completed = req[c].completed,
                                       !.updated_at = <<now>>]]
              /\ UNCHANGED <<users, registered, nextUserId, nextItemId>>
         [] OTHER -> FALSE
    /\ UNCHANGED <<nextSalt, now>>

\* ------------------------------------------------------------- health check
HealthBody(db_status) == [kind |-> "health", status |-> db_status]

\* GET /health: db = SessionLocal(); db.execute(...); db.close() inside a try
\* whose except skips the close when the execute raises
Health(c) ==
    /\ pc[c] = "idle"
    /\ \E raises \in BOOLEAN :
         /\ raises => sessions[c] < MaxLeaked
         /\ Deliver(c, Success(200, HealthBody(IF raises THEN "unhealthy" ELSE "healthy")),
                    [NoReq EXCEPT !.op = "health"])
         /\ sessions' = [sessions EXCEPT ![c] =
                            IF raises THEN SessionLocal(@) ELSE Close(SessionLocal(@))]
    /\ UNCHANGED <<users, registered, items, nextUserId, nextItemId, nextSalt, now>>

\* ------------------------------------------------------------ specifications
NoUsers == [i \in {} |-> 0]
NoItems == [i \in {} |-> 0]

Idle ==
    /\ pc = [c \in Clients |-> "idle"]
    /\ req = [c \in Clients |-> NoReq]
    /\ last = NoLast
    /\ sessions = [c \in Clients |-> 0]

\* the service after construction: empty tables
Init ==
    /\ users = NoUsers
    /\ registered = NoUsers
    /\ items = NoItems
    /\ nextUserId = 1
    /\ nextItemId = 1
    /\ nextSalt = 1
    /\ now = 0
    /\ tokens = {}
    /\ Idle

\* the account registry under concurrent registrations
NextAccounts ==
    \/ \E c \in Clients : RegisterStart(c, RegisterInputs)
    \/ \E c \in Clients : RegisterCommit(c)
    \/ \E c \in Clients : Login(c, LoginInputs)
    \/ \E u \in 1..MaxUserId : DeleteUser(u)

SpecAccounts == Init /\ [][NextAccounts]_vars

\* two registered users, each logged in once: the state the item store works in
TwoUsers ==
    [i \in {1, 2} |->
        IF i = 1 THEN [username |-> Bob, password_hash |-> hash_password(GoodPassword, 1)]
        ELSE [username |-> Al, password_hash |-> hash_password(OtherPassword, 2)]]

InitItems ==
    /\ users = TwoUsers
    /\ registered = [i \in {1, 2} |-> IF i = 1 THEN GoodPassword ELSE OtherPassword]
    /\ items = NoItems
    /\ nextUserId = 3
    /\ nextItemId = 1
    /\ nextSalt = 3
    /\ now = 0
    /\ tokens = {LoginResponse(create_access_token(TokenData(i, TwoUsers[i]), <<>>, 0),
                               i, TwoUsers[i]) : i \in {1, 2}}
    /\ Idle

\* the item operations of client c, on items 1..cap
ItemsStep(c, cap) ==
    \/ CreateStart(c, HeldAuths, GoodTexts, cap)
    \/ CreateCommit(c)
    \/ ListStart(c, HeldAuths)
    \/ ListQuery(c)
    \/ UpdateStart(c, HeldAuths, 1..cap)
    \/ UpdateLoad(c)
    \/ UpdateCommit(c)
    \/ DeleteStart(c, HeldAuths, 1..cap)
    \/ DeleteLoad(c)
    \/ DeleteCommit(c)

\* the item store under concurrent requests
NextItems == \E c \in Clients : ItemsStep(c, MaxItemIdConcurrent)

SpecItems == InitItems /\ [][NextItems]_vars

\* the item store with one request at a time
NextItemsSeq == ItemsStep(1, MaxItemId)

SpecItemsSeq == InitItems /\ [][NextItemsSeq]_vars

\* sessions: registration, login, the clock, user deletion, and the item
\* operations presented with every kind of token, one request at a time
NextSessions ==
    \/ RegisterStart(1, {<<Bob, GoodPassword>>, <<Al, OtherPassword>>})
    \/ RegisterCommit(1)
    \/ Login(1, {<<Bob, GoodPassword>>, <<Bob, OtherPassword>>, <<Al, OtherPassword>>})
    \/ CreateStart(1, HeldOrNoAuth, {<<"m">>}, 1)
    \/ CreateCommit(1)
    \/ ListStart(1, AnyAuths)
    \/ ListQuery(1)
    \/ UpdateStart(1, HeldOrNoAuth, {1})
    \/ UpdateLoad(1)
    \/ UpdateCommit(1)
    \/ DeleteStart(1, HeldOrNoAuth, {1})
    \/ DeleteLoad(1)
    \/ DeleteCommit(1)
    \/ \E u \in 1..MaxUserId : DeleteUser(u)
    \/ Tick

SpecSessions == Init /\ [][NextSessions]_vars

\* the item store with one request at a time, and users being deleted
NextCascade ==
    \/ NextItemsSeq
    \/ \E u \in 1..MaxUserId : DeleteUser(u)

SpecCascade == InitItems /\ [][NextCascade]_vars

\* the item store fed with every kind of text, one request at a time
NextTexts ==
    \/ CreateStart(1, HeldAuths, TextInputs, MaxItemIdConcurrent)
    \/ CreateCommit(1)
    \/ ListStart(1, HeldAuths)
    \/ ListQuery(1)
    \/ UpdateStart(1, HeldAuths, 1..MaxItemIdConcurrent)
    \/ UpdateLoad(1)
    \/ UpdateCommit(1)
    \/ DeleteStart(1, HeldAuths, 1..MaxItemIdConcurrent)
    \/ DeleteLoad(1)
    \/ DeleteCommit(1)

SpecTexts == InitItems /\ [][NextTexts]_vars

\* tokens: registration, login, direct issuance with a lifetime, the clock and
\* the item operations, one request at a time
NextTokens ==
    \/ RegisterStart(1, {<<Bob, GoodPassword>>, <<Al, OtherPassword>>})
    \/ RegisterCommit(1)
    \/ Login(1, {<<Bob, GoodPassword>>, <<Al, OtherPassword>>})
    \/ IssueToken(1, TtlInputs)
    \/ CreateStart(1, HeldAuths, {<<"m">>}, 1)
    \/ CreateCommit(1)
    \/ ListStart(1, HeldAuths)
    \/ ListQuery(1)
    \/ UpdateStart(1, HeldAuths, {1})
    \/ UpdateLoad(1)
    \/ UpdateCommit(1)
    \/ DeleteStart(1, HeldAuths, {1})
    \/ DeleteLoad(1)
    \/ DeleteCommit(1)
    \/ Tick

SpecTokens == Init /\ [][NextTokens]_vars

\* registration with passwords the schema accepts and refuses, login and the
\* item operations, one request at a time
NextSecrecy ==
    \/ RegisterStart(1, {<<Bob, GoodPassword>>, <<Al, OtherPassword>>,
                         <<Bob, Rep("p", PasswordMinLength - 1)>>})
    \/ RegisterCommit(1)
    \/ Login(1, {<<Bob, GoodPassword>>, <<Bob, OtherPassword>>, <<Al, OtherPassword>>})
    \/ CreateStart(1, HeldOrNoAuth, TextInputs, 1)
    \/ CreateCommit(1)
    \/ ListStart(1, AnyAuths)
    \/ ListQuery(1)
    \/ UpdateStart(1, HeldOrNoAuth, {1})
    \/ UpdateLoad(1)
    \/ UpdateCommit(1)
    \/ DeleteStart(1, HeldOrNoAuth, {1})
    \/ DeleteLoad(1)
    \/ DeleteCommit(1)

SpecSecrecy == Init /\ [][NextSecrecy]_vars

\* logins while some users have a stored hash that is no digest
NextMalformed ==
    \/ AddUser({Bob, Al})
    \/ RegisterStart(1, {<<Bob, GoodPassword>>, <<Al, OtherPassword>>})
    \/ RegisterCommit(1)
    \/ \E c \in Clients : Login(c, LoginInputs)
    \/ \E u \in 1..MaxUserId : DeleteUser(u)

SpecMalformed == Init /\ [][NextMalformed]_vars

\* the sessions of concurrent requests: logins, item operations, health checks
NextConnections ==
    \/ \E c \in Clients : Login(c, {<<Bob, GoodPassword>>, <<Bob, OtherPassword>>})
    \/ \E c \in Clients : ItemsStep(c, 1)
    \/ \E c \in Clients : Health(c)
    \/ \E u \in 1..MaxUserId : DeleteUser(u)

SpecConnections == InitItems /\ [][NextConnections]_vars

\* registration, login and the item operations over a store whose writes and
\* refreshes may fail, one request at a time
NextFaults ==
    \/ RegisterStart(1, {<<Bob, GoodPassword>>, <<Al, OtherPassword>>})
    \/ RegisterCommit(1)
    \/ Login(1, {<<Bob, GoodPassword>>, <<Al, OtherPassword>>})
    \/ CreateStart(1, HeldAuths, {<<"m">>}, MaxItemIdConcurrent)
    \/ CreateCommit(1)
    \/ ListStart(1, HeldAuths)
    \/ ListQuery(1)
    \/ UpdateStart(1, HeldAuths, 1..MaxItemIdConcurrent)
    \/ UpdateLoad(1)
    \/ UpdateCommit(1)
    \/ DeleteStart(1, HeldAuths, 1..MaxItemIdConcurrent)
    \/ DeleteLoad(1)
    \/ DeleteCommit(1)
    \/ WriteFault(1)
    \/ RefreshFault(1)

SpecFaults == Init /\ [][NextFaults]_vars

\* the credential hasher called directly by two callers
NextHasher ==
    \/ \E c \in Clients : HashPassword(c)
    \/ \E c \in Clients : VerifyPassword(c)

SpecHasher == Init /\ [][NextHasher]_vars

\* ------------------------------------------------------------------ claims
\* client c takes the step that runs the checks of its update or delete
ChecksStep(c) ==
    /\ pc[c] = "handler"
    /\ req[c].op \in {"update", "delete"}
    /\ pc'[c] # "handler"

\* C1: in setCompletion and delete the existence check comes first: whoever
\* the acting user is, when the item id does not exist at the check the
\* request ends there with 404 Not Found, never with 403.
C1_ExistenceBeforeOwnership ==
    [][\A c \in Clients :
         (ChecksStep(c) /\ req[c].todo_id \notin DOMAIN items)
         => /\ last'.req = req[c]
            /\ last'.resp = TodoNotFound
            /\ last'.resp.status = 404
            /\ pc'[c] = "idle"]_vars

\* C1 witness: a delete of a missing id by a user who owns nothing, answered
\* 404 while an item of another user exists.
C1_Witness ==
    /\ last.req.op = "delete"
    /\ last.resp.status = 404
    /\ last.req.todo_id \notin DOMAIN items
    /\ items # NoItems
    /\ \A i \in DOMAIN items : items[i].user_id # last.req.user_id

\* C2: a setCompletion or delete by an authenticated user who is not the
\* owner of an existing item ends at the ownership check with 403 and leaves
\* every item (existence, completed flag, text) as it was; and whenever an
\* item changes or disappears, the step is the commit of a request of its owner.
C2_OnlyOwnerChanges ==
    [][/\ \A c \in Clients :
         (/\ ChecksStep(c)
          /\ req[c].todo_id \in DOMAIN items
          /\ items[req[c].todo_id].user_id # req[c].user_id)
         => /\ last'.req = req[c]
            /\ last'.resp.status = 403
            /\ last'.resp = IF req[c].op = "update" THEN NotAuthorizedUpdate
                            ELSE NotAuthorizedDelete
            /\ pc'[c] = "idle"
            /\ items' = items
       /\ \A i \in DOMAIN items :
            (i \notin DOMAIN items' \/ items'[i] # items[i])
            => \E c \in Clients :
                 /\ pc[c] = "commit" /\ pc'[c] = "idle"
                 /\ req[c].todo_id = i
                 /\ req[c].user_id = items[i].user_id]_vars

\* C2 witness: a non-owner's setCompletion on a completed item was answered 403.
C2_Witness ==
    /\ last.req.op = "update"
    /\ last.resp.status = 403
    /\ last.req.todo_id \in DOMAIN items
    /\ items[last.req.todo_id].user_id # last.req.user_id
    /\ items[last.req.todo_id].completed
    /\ ~last.req.completed

\* the identifiers a list response holds
ListedIds(l) == {l[k].id : k \in 1..Len(l)}

\* C3: a listAll response holds exactly the items of the acting user, each
\* with its stored fields, in strictly descending order of identifier; and
\* identifiers are handed out in increasing order, so a later-created item
\* precedes an earlier-created one.
C3_ListAllExactAndNewestFirst ==
    /\ \A i \in DOMAIN items : i < nextItemId
    /\ (last.req.op = "list" /\ last.resp.status = 200) =>
         LET l == last.resp.body.items
         IN /\ ListedIds(l) = {i \in DOMAIN items : items[i].user_id = last.req.user_id}
            /\ \A k \in 1..Len(l) : l[k] = TodoItemResponse(l[k].id, items[l[k].id])
            /\ \A k \in 1..Len(l) - 1 : l[k].id > l[k + 1].id

\* C3 witness: a list of two items while another user owns an item too.
C3_Witness ==
    /\ last.req.op = "list"
    /\ last.resp.status = 200
    /\ Len(last.resp.body.items) = 2
    /\ \E i \in DOMAIN items : items[i].user_id # last.req.user_id

\* the characters the username rule names
UsernameChars == LowerCase \cup Digits \cup {"_"}

\* C4: in every reachable state every stored username is lowercase, 3 to 50
\* characters long, made of letters, digits and underscore only, and no two
\* users have the same username (so two concurrent registrations of one
\* normalized username never both succeed).
C4_StoredUsernamesNormalised ==
    /\ \A i \in DOMAIN users :
         LET u == users[i].username
         IN /\ u = Lower(u)
            /\ Len(u) >= 3 /\ Len(u) <= 50
            /\ \A k \in 1..Len(u) : u[k] \in UsernameChars
    /\ \A i, j \in DOMAIN users :
         users[i].username = users[j].username => i = j

\* C4 witness: two accounts whose usernames differ only by a trailing newline.
C4_Witness ==
    \E i, j \in DOMAIN users :
        users[j].username = users[i].username \o <<"\n">>

\* a step that ends a register request naming an already stored username
DuplicateRegisterEnds ==
    /\ last'.req.op = "register"
    /\ UserByUsername(Lower(last'.req.username)) # {}

\* C5 (as stated): a register whose lowercased username is stored when the
\* request is decided ends with 409 Conflict whatever the password and the
\* letter case, and leaves the users as they were.
C5_DuplicateAlwaysConflict ==
    [][DuplicateRegisterEnds
       => /\ last'.resp.status = 409
          /\ last'.resp.detail = "Username already exists"
          /\ users' = users]_vars

\* C5 (amended): a register with a password of at least 8 characters whose
\* lowercased username is stored when the request is decided, at the existence
\* check or at the insert, ends with 409 Conflict whatever the letter case,
\* never with an internal fault, and leaves the users as they were.
C5_DuplicateConflictForValidPassword ==
    [][(DuplicateRegisterEnds /\ Len(last'.req.password) >= 8)
       => /\ last'.resp.status = 409
          /\ last'.resp.detail = "Username already exists"
          /\ last'.resp.body = NoBody
          /\ users' = users]_vars

\* C5 witness: the loser of a race was answered 409 at the insert, and the
\* winner's account holds another hash.
C5_Witness ==
    /\ last.req.op = "register"
    /\ last.resp.status = 409
    /\ last.req.password_hash # NoHash
    /\ \E i \in DOMAIN users :
         /\ users[i].username = last.req.username
         /\ users[i].password_hash # last.req.password_hash

\* the accounts a login with these credentials is entitled to
Entitled(username, password) ==
    {i \in DOMAIN users : /\ users[i].username = Lower(username)
                          /\ registered[i] = password}

\* C6: a login succeeds exactly when a user whose stored username is the
\* lowercased username exists and the password is the one that user
\* registered with; the user info returned is that user's id and username.
C6_LoginIff ==
    last.req.op = "login" =>
        LET e == Entitled(last.req.username, last.req.password)
        IN /\ last.resp.status \in {200, 401}
           /\ last.resp.status = 200 <=> e # {}
           /\ last.resp.status = 200 =>
                /\ last.resp.body.user.id \in e
                /\ last.resp.body.user.username = users[last.resp.body.user.id].username

\* C6 witness: a login succeeded with a password that is not the one the user
\* registered with.
C6_Witness ==
    /\ last.req.op = "login"
    /\ last.resp.status = 200
    /\ last.resp.body.user.id \in DOMAIN registered
    /\ registered[last.resp.body.user.id] # last.req.password

\* C7: every failed login is answered with one and the same response, status
\* 401, detail "Invalid credentials", header WWW-Authenticate: Bearer, whether
\* the username is unknown or the password is wrong.
C7_FailedLoginsIdentical ==
    /\ (last.req.op = "login" /\ last.resp.status # 200) =>
         last.resp = [status |-> 401, detail |-> "Invalid credentials",
                      headers |-> [k \in {"WWW-Authenticate"} |-> "Bearer"],
                      body |-> NoBody]
    /\ \A a, b \in LoginInputs :
         (login(a[1], a[2]).status # 200 /\ login(b[1], b[2]).status # 200)
         => login(a[1], a[2]) = login(b[1], b[2])

\* C7 witness: a wrong password for a registered username was answered as a
\* login with an unregistered username is.
C7_Witness ==
    /\ last.req.op = "login"
    /\ last.resp.status = 401
    /\ UserByUsername(Lower(last.req.username)) # {}
    /\ \E a \in LoginInputs :
         /\ UserByUsername(Lower(a[1])) = {}
         /\ login(a[1], a[2]) = last.resp

\* the operations behind the identity resolver
ItemOps == {"create", "list", "update", "delete"}

\* a step in which a protected request is answered by its dependencies,
\* before its handler
Rejected == pc' = pc /\ last'.req.op \in ItemOps

\* a step in which the request of client c passes on to its handler
Admitted(c) == pc[c] = "idle" /\ pc'[c] = "handler"

\* the answer of the resolver to the token it refuses
AuthenticationError ==
    [status |-> 401, detail |-> "Could not validate credentials",
     headers |-> [k \in {"WWW-Authenticate"} |-> "Bearer"], body |-> NoBody]

\* what the resolver makes of the token of a held login response
Resolved(b) == get_current_user(b.access_token)

\* the token of login response b names the user of b, and (given alive)
\* resolves to that user until it expires
RoundTrip(b, alive) ==
    LET claims == b.access_token.claims
    IN /\ b.access_token.key = SECRET_KEY
       /\ ParseInt(claims["sub"]).ok
       /\ ParseInt(claims["sub"]).value = b.user.id
       /\ claims["username"] = b.user.username
       /\ (now <= claims["exp"] /\ alive) =>
            /\ Resolved(b).ok
            /\ Resolved(b).user_id = b.user.id
            /\ users[Resolved(b).user_id].username = b.user.username

\* tokens of two different users never resolve to one user
DistinctUsersResolveApart ==
    \A a, b \in tokens :
        (a.user.id # b.user.id /\ Resolved(a).ok /\ Resolved(b).ok)
        => Resolved(a).user_id # Resolved(b).user_id

\* C8 (as stated): the token a successful login returned carries the user's id,
\* string-encoded, as subject and the user's username, and until it expires
\* the resolver makes of it exactly the user who logged in; tokens of two
\* different users resolve to two different users.
C8_LoginResolveRoundTrip ==
    /\ \A b \in tokens : RoundTrip(b, TRUE)
    /\ DistinctUsersResolveApart

\* C8 (amended): the same, for as long as the user who logged in exists.
C8_RoundTripWhileUserExists ==
    /\ \A b \in tokens : RoundTrip(b, b.user.id \in DOMAIN users)
    /\ DistinctUsersResolveApart

\* C8 witness: a list request was served for the user its token was issued
\* to, while the token of another user is held and resolves too.
C8_Witness ==
    /\ last.req.op = "list"
    /\ last.resp.status = 200
    /\ \E a, b \in tokens :
         /\ last.req.auth = <<a.access_token>>
         /\ last.req.user_id = a.user.id
         /\ b.user.id # a.user.id
         /\ Resolved(a).ok
         /\ Resolved(b).ok

\* a token the resolver has to refuse at the present time
InvalidToken(t) ==
    \/ ~t.wellformed
    \/ t.key # SECRET_KEY
    \/ ("exp" \in DOMAIN t.claims /\ t.claims["exp"] < now)
    \/ "sub" \notin DOMAIN t.claims
    \/ Len(t.claims["sub"]) = 0
    \/ \E k \in 1..Len(t.claims["sub"]) : t.claims["sub"][k] \notin Digits

\* C9: a protected request presenting an invalid token (not signed with the
\* server secret, expired, without subject, with a subject that is no integer,
\* or no token at all in form) is answered 401 by the resolver, changes no
\* user and no item, and never reaches its handler.
C9_InvalidTokenRejected ==
    [][/\ (/\ Rejected
           /\ last'.req.auth # <<>>
           /\ InvalidToken(last'.req.auth[1]))
          => /\ last'.resp = AuthenticationError
             /\ users' = users
             /\ items' = items
       /\ \A c \in Clients :
            Admitted(c) => ~InvalidToken(req'[c].auth[1])]_vars

\* C9 witness: a correctly signed token whose subject is no integer was
\* answered 401.
C9_Witness ==
    /\ last.req.op = "list"
    /\ last.resp.status = 401
    /\ last.req.auth # <<>>
    /\ last.req.auth[1].key = SECRET_KEY
    /\ "sub" \in DOMAIN last.req.auth[1].claims
    /\ last.req.auth[1].claims["sub"] = <<"x">>

\* the held login responses whose token is t
IssuedWith(t) == {b \in tokens : b.access_token = t}

\* C10: a protected request presenting a token issued to a user who exists no
\* more is answered 401 by the resolver; a request reaches its handler only on
\* behalf of a user who exists at that moment and to whom the token was
\* issued; and no new user ever gets the id a held token was issued to, so a
\* token of a deleted user fails for good.
C10_DeletedUserTokenFails ==
    [][/\ (/\ Rejected
           /\ last'.req.auth # <<>>
           /\ \E b \in IssuedWith(last'.req.auth[1]) : b.user.id \notin DOMAIN users)
          => last'.resp = AuthenticationError
       /\ \A c \in Clients :
            Admitted(c) =>
                /\ req'[c].user_id \in DOMAIN users
                /\ \A b \in IssuedWith(req'[c].auth[1]) : b.user.id = req'[c].user_id
       /\ \A u \in DOMAIN users' \ DOMAIN users :
            \A b \in tokens : b.user.id # u]_vars

\* C10 witness: the token of a deleted user, correctly signed and not expired,
\* was answered 401 after the username had been registered again.
C10_Witness ==
    /\ last.req.op \in ItemOps
    /\ last.resp.status = 401
    /\ \E b \in tokens :
         /\ last.req.auth = <<b.access_token>>
         /\ b.access_token.key = SECRET_KEY
         /\ b.access_token.claims["exp"] >= now
         /\ b.user.id \notin DOMAIN users
         /\ \E i \in DOMAIN users : users[i].username = b.user.username

\* an Authorization header that identifies no existing user at present: no
\* header, an invalid token, or a subject no user has
Unidentified(auth) ==
    \/ auth = <<>>
    \/ InvalidToken(auth[1])
    \/ \A i \in DOMAIN users : IntToStr(i) # auth[1].claims["sub"]

C13_ExpiryIsIssuancePlusTtl ==
    last.req.op = "issue" =>
        last.resp.body.access_token.claims["exp"] =
            IF last.req.expires_delta = <<>> THEN now + 24
            ELSE now + last.req.expires_delta[1]

\* C13 witness: a token issued with a negative lifetime expires before its
\* issuance.
C13_Witness ==
    /\ last.req.op = "issue"
    /\ last.req.expires_delta = <<-1>>
    /\ last.resp.body.access_token.claims["exp"] = now - 1

\* C14: under registrations, logins, issuances and item operations, every
\* token issued to a user resolves to that user at every instant before its
\* expiration and is refused with 401 at every instant after it; so all the
\* tokens of one user are valid together and a later login revokes none.
C14_ValidUntilExpiryOnly ==
    \A b \in tokens :
        LET exp == b.access_token.claims["exp"]
        IN /\ now < exp => /\ Resolved(b).ok
                           /\ Resolved(b).user_id = b.user.id
                           /\ users[b.user.id].username = b.user.username
           /\ now > exp => /\ ~Resolved(b).ok
                           /\ Resolved(b).resp = AuthenticationError

\* C14 witness: a list request was served with one of two tokens of the same
\* user that expire at different instants, after the clock has moved and an
\* item was stored.
C14_Witness ==
    /\ last.req.op = "list"
    /\ last.resp.status = 200
    /\ now > 0
    /\ items # NoItems
    /\ \E a, b \in tokens :
         /\ last.req.auth = <<a.access_token>>
         /\ b.user.id = a.user.id
         /\ b.access_token.claims["exp"] # a.access_token.claims["exp"]
         /\ Resolved(a).ok
         /\ Resolved(b).ok

\* a text of 1 to 500 characters without whitespace at either end
TrimmedText(text) ==
    /\ Len(text) >= 1
    /\ Len(text) <= 500
    /\ text[1] \notin Whitespace
    /\ text[Len(text)] \notin Whitespace

\* C15: a create by an authenticated user is refused with 422 exactly when the
\* text is empty after trimming or longer than 500 characters, and otherwise
\* stores and returns the trimmed text; every stored text has 1 to 500
\* characters and no whitespace at either end.
C15_StoredTextsTrimmedNonEmpty ==
    /\ (last.req.op = "create" /\ last.resp.status \in {201, 422}) =>
         /\ last.resp.status = 422 <=>
                (Strip(last.req.text) = <<>> \/ Len(last.req.text) > 500)
         /\ last.resp.status = 201 =>
                last.resp.body.item.text = Strip(last.req.text)
    /\ \A i \in DOMAIN items : TrimmedText(items[i].text)

\* C15 witness: an item with an empty text is stored.
C15_Witness ==
    \E i \in DOMAIN items : items[i].text = <<>>

\* client c takes the step that ends its create with 201
CreateSucceeds(c) ==
    /\ pc[c] = "handler"
    /\ req[c].op = "create"
    /\ pc'[c] = "idle"
    /\ last'.resp.status = 201

\* C16: a successful create adds exactly one item, under an id never used
\* before, owned by the user the request's token was issued to and not
\* completed, and leaves every other item as it was; and in no step does an
\* item that stays change its owner.
C16_CreateAddsOneOwnedItem ==
    [][/\ \A c \in Clients :
            CreateSucceeds(c) =>
                \E new \in DOMAIN items' \ DOMAIN items :
                    /\ DOMAIN items' = DOMAIN items \cup {new}
                    /\ new >= nextItemId
                    /\ nextItemId' > new
                    /\ items'[new].user_id = req[c].user_id
                    /\ \E b \in tokens : /\ req[c].auth = <<b.access_token>>
                                         /\ b.user.id = items'[new].user_id
                    /\ ~items'[new].completed
                    /\ last'.resp.body.item.id = new
                    /\ \A i \in DOMAIN items : items'[i] = items[i]
       /\ \A i \in DOMAIN items \cap DOMAIN items' :
            items'[i].user_id = items[i].user_id]_vars

\* C16 witness: an item created by the second user stands next to an item of
\* the first, which has been completed since.
C16_Witness ==
    /\ last.req.op = "create"
    /\ last.resp.status = 201
    /\ last.req.user_id = 2
    /\ \E i \in DOMAIN items : items[i].user_id = 1 /\ items[i].completed

\* client c takes the step that ends its update with 200
UpdateSucceeds(c) ==
    /\ pc[c] = "commit"
    /\ req[c].op = "update"
    /\ pc'[c] = "idle"
    /\ last'.resp.status = 200

\* C17: the step that ends a setCompletion of the owner with success leaves
\* the item with the requested completed flag, returns it so, and changes
\* nothing else: the item's owner and text, every other item and every user
\* are as before.
C17_SetCompletionSetsOnlyTheFlag ==
    [][\A c \in Clients :
         UpdateSucceeds(c) =>
             LET id == req[c].todo_id
             IN /\ DOMAIN items' = DOMAIN items
                /\ items'[id].completed = req[c].completed
                /\ items'[id].user_id = items[id].user_id
                /\ items'[id].text = items[id].text
                /\ last'.resp.body.item = TodoItemResponse(id, items'[id])
                /\ \A i \in DOMAIN items \ {id} : items'[i] = items[i]
                /\ users' = users]_vars

\* C17 witness: a setCompletion was answered 200 with a completed flag that is
\* not the requested one.
C17_Witness ==
    /\ last.req.op = "update"
    /\ last.resp.status = 200
    /\ last.resp.body.item.completed # last.req.completed

\* client c takes the step that ends its delete with 204
DeleteSucceeds(c) ==
    /\ pc[c] = "commit"
    /\ req[c].op = "delete"
    /\ pc'[c] = "idle"
    /\ last'.resp.status = 204

\* C18: the step that ends a delete with success leaves the table without
\* that item and with every other item as it was; an id once handed out is
\* never handed out again, so the item stays away; a list shows stored items
\* only; and an update or delete whose check finds the id absent is answered
\* 404 "Todo item not found", whoever asks, whether the id was deleted or
\* never existed.
C18_DeleteRemovesOneForGood ==
    [][/\ \A c \in Clients :
            DeleteSucceeds(c) =>
                /\ req[c].todo_id \notin DOMAIN items'
                /\ DOMAIN items' = DOMAIN items \ {req[c].todo_id}
                /\ \A i \in DOMAIN items' : items'[i] = items[i]
                /\ users' = users
       /\ \A i \in DOMAIN items' \ DOMAIN items : i >= nextItemId /\ nextItemId' > i
       /\ nextItemId' >= nextItemId
       /\ (last'.req.op = "list" /\ last'.resp.status = 200)
          => ListedIds(last'.resp.body.items) \subseteq DOMAIN items
       /\ \A c \in Clients :
            (ChecksStep(c) /\ req[c].todo_id \notin DOMAIN items)
            => /\ last'.resp = [status |-> 404, detail |-> "Todo item not found",
                                headers |-> NoHeaders, body |-> NoBody]
               /\ pc'[c] = "idle"
               /\ items' = items]_vars

\* C18 witness: an update on a deleted id by a user who owns nothing was
\* answered 404 while another item is still stored.
C18_Witness ==
    /\ last.req.op = "update"
    /\ last.resp.status = 404
    /\ last.req.todo_id < nextItemId
    /\ last.req.todo_id \notin DOMAIN items
    /\ items # NoItems
    /\ \A i \in DOMAIN items : items[i].user_id # last.req.user_id

\* C19: in every reachable state the owner of every item is an existing user,
\* also when a user is deleted between the resolution of the user's token and
\* the insert of the create it authorised.
C19_NoOrphanItems ==
    \A i \in DOMAIN items : items[i].user_id \in DOMAIN users

\* C19 witness: the insert of a create failed because its user had been
\* deleted after the token was resolved.
C19_Witness ==
    /\ last.req.op = "create"
    /\ last.req.user_id # 0
    /\ last.req.user_id \notin DOMAIN users
    /\ last.resp.status = 500
    /\ items = NoItems

\* C20: the step that deletes a user removes that user and exactly the items
\* the user owns: afterwards no item refers to the user, and every other user
\* and every item of another user is as before.
C20_UserDeletionCascades ==
    [][\A u \in DOMAIN users \ DOMAIN users' :
         /\ DOMAIN users' = DOMAIN users \ {u}
         /\ \A v \in DOMAIN users' : users'[v] = users[v]
         /\ \A i \in DOMAIN items' : items'[i].user_id # u
         /\ DOMAIN items' = {i \in DOMAIN items : items[i].user_id # u}
         /\ \A i \in DOMAIN items' : items'[i] = items[i]]_vars

\* C20 witness: a user was deleted while an update of the user's own item was
\* between its query and its commit: the item is gone with the user, and an
\* item of the other user is still stored.
C20_Witness ==
    /\ pc[1] = "commit"
    /\ req[1].op = "update"
    /\ req[1].user_id \notin DOMAIN users
    /\ req[1].todo_id \notin DOMAIN items
    /\ \E i \in DOMAIN items : items[i].user_id \in DOMAIN users

\* C21: for every valid password p, verify(p, hash(p)) is true and
\* verify(q, hash(p)) is false for every q other than p; two calls of hash(p)
\* return two different digests, and both verify against p.
C21_HashVerifyExact ==
    /\ \A c \in Clients :
         pc[c] = "hashed" =>
             /\ verify_password(req[c].password, req[c].password_hash).value
             /\ \A q \in HashInputs \ {req[c].password} :
                    ~verify_password(q, req[c].password_hash).value
    /\ \A c, d \in Clients :
         (c # d /\ pc[c] = "hashed" /\ pc[d] = "hashed"
               /\ req[c].password = req[d].password)
         => req[c].password_hash # req[d].password_hash
    /\ last.req.op = "verify" =>
         /\ last.resp.status = 200
         /\ last.resp.body.result = (last.req.plain_password = last.req.password)

\* C21 witness: a password was verified against the hash of another password.
C21_Witness ==
    /\ last.req.op = "verify"
    /\ last.req.plain_password # last.req.password
    /\ Len(last.req.password) >= PasswordMinLength
    /\ last.resp.body.result

\* the plaintext passwords there are: those the users registered with and the
\* one of the request just answered
PlaintextPasswords ==
    ({registered[i] : i \in DOMAIN registered} \cup {last.req.password}) \ {<<>>}

\* the field names a response body may have, by kind
BodyShapeOk(b) ==
    CASE b.kind = "user" -> DOMAIN b = {"kind", "id", "username"}
      [] b.kind = "login" ->
            /\ DOMAIN b = {"kind", "access_token", "token_type", "user"}
            /\ DOMAIN b.user = {"id", "username"}
            /\ DOMAIN b.access_token.claims = {"sub", "username", "exp"}
      [] b.kind = "item" -> DOMAIN b.item = {"id", "user_id", "text", "completed", "updated_at"}
      [] b.kind = "list" ->
            \A k \in 1..Len(b.items) :
                DOMAIN b.items[k] =
                    {"id", "user_id", "text", "completed", "updated_at"}
      [] OTHER -> TRUE

\* the strings a response body carries
BodyStrings(b) ==
    CASE b.kind = "user" -> {b.username}
      [] b.kind = "login" -> {b.user.username, b.access_token.claims["sub"],
                              b.access_token.claims["username"]}
      [] b.kind = "item" -> {b.item.text}
      [] b.kind = "list" -> {b.items[k].text : k \in 1..Len(b.items)}
      [] b.kind = "errors" -> b.inputs
      [] OTHER -> {}

\* C22: in every reachable state no stored password hash is the plaintext
\* password it was derived from, and the response of every register, login
\* and item operation has no field for a password or a hash and carries no
\* plaintext password.
C22_CredentialSecrecy ==
    /\ \A i \in DOMAIN users :
         /\ DOMAIN users[i].password_hash = {"salt", "digest"}
         /\ users[i].password_hash.digest # registered[i]
    /\ last.req.op \in {"register", "login"} \cup ItemOps =>
         /\ BodyShapeOk(last.resp.body)
         /\ BodyStrings(last.resp.body) \cap PlaintextPasswords = {}

\* C22 witness: a register refused with 422 whose response carries the
\* password of the request.
C22_Witness ==
    /\ last.req.op = "register"
    /\ last.resp.status = 422
    /\ last.resp.body.kind = "errors"
    /\ last.req.password \in last.resp.body.inputs
    /\ users # NoUsers

\* C23: the step that ends a setCompletion with success leaves the item with
\* the time of the update as its modification timestamp (updated_at) and
\* returns it so, also when the completed flag already had the value asked for.
C23_UpdateStampsUpdatedAt ==
    [][\A c \in Clients :
         UpdateSucceeds(c) =>
             /\ items'[req[c].todo_id].updated_at = <<now>>
             /\ last'.resp.body.item.updated_at = <<now>>]_vars

\* C23 witness: a setCompletion to the value the flag already had was answered
\* 200 with an item that has no modification timestamp.
C23_Witness ==
    /\ last.req.op = "update"
    /\ last.resp.status = 200
    /\ last.req.completed = last.resp.body.item.completed
    /\ last.resp.body.item.updated_at = <<>>
    /\ items[last.req.todo_id].updated_at = <<>>

\* C24: a login for a user whose stored password hash is no well-formed
\* digest is answered with the generic invalid-credentials error (401),
\* whatever the password, and never with an internal fault.
C24_MalformedHashIs401 ==
    last.req.op = "login" =>
        /\ last.resp.status # 500
        /\ (\E i \in UserByUsername(Lower(last.req.username)) :
                ~Identified(users[i].password_hash))
           => last.resp = InvalidCredentials

\* C24 witness: a login for a user whose stored hash is no digest was answered
\* with an internal fault, while another user has a well-formed hash.
C24_Witness ==
    /\ last.req.op = "login"
    /\ last.resp.status = 500
    /\ \E i \in UserByUsername(Lower(last.req.username)) :
         users[i].password_hash = MalformedHash
    /\ \E j \in DOMAIN users : Identified(users[j].password_hash)

\* C25: a request that opens a data-store session closes it on every exit
\* path, so a client without a request in flight has no open session; and a
\* request never holds more than one session, the resolver and the handler
\* sharing it.
C25_SessionsReleased ==
    \A c \in Clients :
        /\ pc[c] = "idle" => sessions[c] = 0
        /\ sessions[c] <= 1

\* C25 witness: a health check whose query raised has ended, and its session
\* is open still.
C25_Witness ==
    /\ last.req.op = "health"
    /\ last.resp.body.status = "unhealthy"
    /\ \E c \in Clients : pc[c] = "idle" /\ sessions[c] = 1

C27_UpdateAfterDeleteIsNotFound ==
    [][\A c \in Clients :
         (/\ pc[c] = "commit"
          /\ req[c].op = "update"
          /\ req[c].todo_id \notin DOMAIN items
          /\ pc'[c] = "idle")
         => /\ last'.resp.status # 200
            /\ req[c].todo_id \notin DOMAIN items'
            /\ last'.resp.status # 500
            /\ last'.resp = TodoNotFound]_vars

\* C27 witness: a setCompletion whose item was deleted by its owner between
\* load and commit was answered with an internal fault.
C27_Witness ==
    /\ last.req.op = "update"
    /\ last.req.fault = ""
    /\ last.resp.status = 500
    /\ last.req.todo_id \notin DOMAIN items
    /\ last.req.todo_id < nextItemId
    /\ last.req.user_id \in DOMAIN users

\* C28: of the concurrent deletes of one item by its owner exactly one ends
\* with 204, the one that removes the item; every delete that comes to its
\* commit when the item is gone ends with 404 Not Found, as a delete after a
\* delete does.
C28_OneDeleteSucceeds ==
    [][\A c \in Clients :
         (pc[c] = "commit" /\ req[c].op = "delete" /\ pc'[c] = "idle")
         => IF req[c].todo_id \in DOMAIN items
            THEN last'.resp.status = 204
            ELSE last'.resp = TodoNotFound]_vars

\* C28 witness: a delete that removed no row was answered 204.
C28_Witness ==
    /\ last.req.op = "delete"
    /\ last.resp.status = 204
    /\ last.req.rowcount = 0
    /\ last.req.todo_id \notin DOMAIN items
    /\ last.req.todo_id < nextItemId

\* C29: a token never resolves to a user other than the one it was issued
\* to.  Whatever registrations and deletions happen, a held token that
\* resolves gives the id and the username it was issued for; every id a token
\* names has been handed out already, and a user who registers gets an id
\* never handed out before, so a later-registered user is never the one a
\* token of an earlier user resolves to.
C29_TokenResolvesToItsUserOnly ==
    /\ [](\A b \in tokens :
            /\ b.user.id < nextUserId
            /\ Resolved(b).ok =>
                 /\ Resolved(b).user_id = b.user.id
                 /\ users[Resolved(b).user_id].username = b.user.username)
    /\ [][/\ nextUserId' >= nextUserId
          /\ \A u \in DOMAIN users' \ DOMAIN users :
                /\ u >= nextUserId
                /\ nextUserId' > u]_vars

\* C29 witness: the username of a deleted user was registered again; a list
\* with the token of the new user was served for the new user, and the
\* unexpired token of the deleted user resolves to nobody.
C29_Witness ==
    /\ last.req.op = "list"
    /\ last.resp.status = 200
    /\ \E a, b \in tokens :
         /\ a.user.username = b.user.username
         /\ a.user.id < b.user.id
         /\ a.user.id \notin DOMAIN users
         /\ a.access_token.claims["exp"] >= now
         /\ ~Resolved(a).ok
         /\ last.req.auth = <<b.access_token>>
         /\ last.req.user_id = b.user.id

\* the statuses of a request that failed
FailureStatuses == {401, 403, 404, 409, 422}

\* C30: a register, login, create, setCompletion or delete that ends with
\* 401, 403, 404, 409 or 422, a login and a listAll however they end, and
\* every step of a request before its last, leave the users and the items,
\* with all their fields, exactly as they were.
C30_FailuresAndReadsChangeNothing ==
    [][(\/ /\ last'.req.op \in {"register", "login"} \cup ItemOps
           /\ last'.resp.status \in FailureStatuses
        \/ last'.req.op \in {"login", "list"}
        \/ \E c \in Clients : pc'[c] \notin {pc[c], "idle"})
       => /\ users' = users
          /\ items' = items]_vars

\* C30 witness: a setCompletion on the item of another user was answered 403
\* and the item has the completed flag it had, the opposite of the one asked
\* for.
C30_Witness ==
    /\ last.req.op = "update"
    /\ last.resp.status = 403
    /\ Cardinality(DOMAIN users) = 2
    /\ last.req.todo_id \in DOMAIN items
    /\ items[last.req.todo_id].user_id # last.req.user_id
    /\ items[last.req.todo_id].completed # last.req.completed
    /\ items[last.req.todo_id].updated_at = <<>>

====
